---- MODULE Spec2Model ----
(***************************************************************************)
(* Model of the two benchmark comparison tools of llama.cpp-compare:       *)
(*   compare.py                  positional comparison of "GB/s" lines     *)
(*   compare_test_backend_ops.py keyed comparison of *FLOPS lines          *)
(*                                                                         *)
(* Text is a sequence of one-character strings, so that the substring      *)
(* tests, strip() and the regular expressions of the source are computed   *)
(* character by character.  A float is an exact rational <<n, d>> in       *)
(* lowest terms with d > 0: the claims checked here are about comparisons, *)
(* a zero divisor and the 0.1 threshold, none of which depend on binary    *)
(* rounding for the short decimals the bounded inputs contain.             *)
(***************************************************************************)
EXTENDS Integers, Sequences, FiniteSets, TLC

VARIABLES
    \* ---- compare.py: compare_files --------------------------------------
    file1, file2,        \* the lines of the two input files (readlines())
    pc,                  \* position in compare_files
    header1, bench1, footer1,
    header2, bench2, footer2,
    i,                   \* loop index of the benchmark loop (0-based)
    stdout,              \* what has been printed, in order
    \* ---- compare.py: process_benchmark_line on its own -----------------
    line1, line2, row,
    \* ---- compare_test_backend_ops.py: parse_benchmark_line on its own ---
    line, parsed,
    \* ---- compare_test_backend_ops.py: format_change on its own ----------
    change, change_str,
    \* ---- compare_test_backend_ops.py: main ------------------------------
    old_file, new_file,  \* Missing, or the lines of the file
    kpc,                 \* position in main / load_results
    pos,                 \* index of the next line load_results reads
    old_results, new_results,
    all_keys, comparisons,
    status,              \* exit status of the process once it has ended
    diag,                \* the diagnostics printed, in order
    report               \* the output file: NotWritten, or header and rows

posVars  == <<file1, file2, pc, header1, bench1, footer1,
              header2, bench2, footer2, i, stdout>>
rowVars  == <<line1, line2, row>>
parseVars == <<line, parsed>>
fmtVars  == <<change, change_str>>
keyVars  == <<old_file, new_file, kpc, pos, old_results, new_results,
              all_keys, comparisons, status, diag, report>>
vars == <<posVars, rowVars, parseVars, fmtVars, keyVars>>
\* What each program leaves alone: the state of the others.
notPos == <<rowVars, parseVars, fmtVars, keyVars>>
notRow == <<posVars, parseVars, fmtVars, keyVars>>
notParse == <<posVars, rowVars, fmtVars, keyVars>>
notFmt == <<posVars, rowVars, parseVars, keyVars>>
notKey == <<posVars, rowVars, parseVars, fmtVars>>

-----------------------------------------------------------------------------
(* Bounds of the model.                                                    *)
MaxLines1 == 4          \* lines of file1 (positional tool)
MaxLines2 == 2          \* lines of file2 (positional tool)
MaxOldLines == 2        \* lines of the old file (keyed tool)
MaxNewLines == 2        \* lines of the new file (keyed tool)
MaxChange == 300        \* format_change is tried on -MaxChange/1000 .. MaxChange/1000

-----------------------------------------------------------------------------
(* Characters and text.                                                    *)
Digit == {"0", "1", "2", "3", "4", "5", "6", "7", "8", "9"}
\* str.strip(), str.rstrip() and the regex class \s on the ASCII text modelled
White == {" ", "\t", "\n", "\r"}
NumChar == Digit \cup {"."}          \* the regex class [\d\.]

DigitVal(c) ==
    CASE c = "0" -> 0 [] c = "1" -> 1 [] c = "2" -> 2 [] c = "3" -> 3
      [] c = "4" -> 4 [] c = "5" -> 5 [] c = "6" -> 6 [] c = "7" -> 7
      [] c = "8" -> 8 [] c = "9" -> 9

DigitChar(n) ==
    CASE n = 0 -> "0" [] n = 1 -> "1" [] n = 2 -> "2" [] n = 3 -> "3"
      [] n = 4 -> "4" [] n = 5 -> "5" [] n = 6 -> "6" [] n = 7 -> "7"
      [] n = 8 -> "8" [] n = 9 -> "9"

\* Optional values: Python's None against a value.
None == [some |-> FALSE]
Some(v) == [some |-> TRUE, val |-> v]

RECURSIVE RunEnd(_, _, _)
\* The first index q >= p with s[q] outside class C (Len(s) + 1 if none):
\* where a greedy C+ or C* started at p stops.
RunEnd(s, p, C) ==
    IF p <= Len(s) /\ s[p] \in C THEN RunEnd(s, p + 1, C) ELSE p

RECURSIVE RunEndNot(_, _, _)
\* The same for the complement class (\S is the complement of \s).
RunEndNot(s, p, C) ==
    IF p <= Len(s) /\ s[p] \notin C THEN RunEndNot(s, p + 1, C) ELSE p

RECURSIVE RunStart(_, _, _)
\* Scanning backwards from p: the last index q <= p with s[q] outside C (0 if none).
RunStart(s, p, C) ==
    IF p >= 1 /\ s[p] \in C THEN RunStart(s, p - 1, C) ELSE p

\* Python's `sub in s` on strings.
Contains(sub, s) ==
    \E k \in 1..(Len(s) - Len(sub) + 1) : SubSeq(s, k, k + Len(sub) - 1) = sub

\* str.rstrip() and str.strip() with no argument.
rstrip(s) == SubSeq(s, 1, RunStart(s, Len(s), White))
strip(s) == LET t == rstrip(s) IN SubSeq(t, RunEnd(t, 1, White), Len(t))

-----------------------------------------------------------------------------
(* Floats as exact rationals.                                              *)
RECURSIVE Gcd(_, _)
Gcd(a, b) == IF b = 0 THEN a ELSE Gcd(b, a % b)

Abs(n) == IF n < 0 THEN -n ELSE n

\* n / d in lowest terms, d > 0.
Rat(n, d) ==
    LET sn == IF d < 0 THEN -n ELSE n
        sd == Abs(d)
        g == Gcd(Abs(sn), sd)
    IN  <<sn \div g, sd \div g>>

RatLess(a, b) == a[1] * b[2] < b[1] * a[2]
RatMul(a, b) == Rat(a[1] * b[1], a[2] * b[2])
RatSub(a, b) == Rat(a[1] * b[2] - b[1] * a[2], a[2] * b[2])
\* a / b for b # 0
RatDiv(a, b) == Rat(a[1] * b[2], a[2] * b[1])
RatOfInt(n) == <<n, 1>>

RECURSIVE StrToNat(_)
\* The number a string of digits denotes ("" denotes 0).
StrToNat(s) ==
    IF s = <<>> THEN 0
    ELSE 10 * StrToNat(SubSeq(s, 1, Len(s) - 1)) + DigitVal(s[Len(s)])

RECURSIVE Pow10(_)
Pow10(k) == IF k = 0 THEN 1 ELSE 10 * Pow10(k - 1)

\* float(s) for s made of digits and '.': the value, or None for ValueError
\* (no digit at all, or more than one '.').
float(s) ==
    LET dots == {k \in 1..Len(s) : s[k] = "."}
        digits == SelectSeq(s, LAMBDA c : c \in Digit)
        fracLen == IF dots = {} THEN 0 ELSE Len(s) - (CHOOSE k \in dots : TRUE)
    IN  IF Cardinality(dots) > 1 \/ digits = <<>> \/ \E k \in 1..Len(s) : s[k] \notin NumChar
        THEN None
        ELSE Some(Rat(StrToNat(digits), Pow10(fracLen)))

RECURSIVE NatToStr(_)
NatToStr(n) ==
    IF n < 10 THEN <<DigitChar(n)>>
    ELSE NatToStr(n \div 10) \o <<DigitChar(n % 10)>>

RECURSIVE FracDigits(_, _)
\* The decimal digits of r / d (0 <= r < d, d a divisor of a power of ten).
FracDigits(r, d) ==
    IF r = 0 THEN <<>>
    ELSE <<DigitChar((r * 10) \div d)>> \o FracDigits((r * 10) % d, d)

\* str(v) of a non-negative float with a short decimal expansion: the
\* shortest decimal that reads back as v, always with a fractional part
\* ("2.0", "81.01", "0.0").
str(v) ==
    LET frac == FracDigits(v[1] % v[2], v[2])
    IN  NatToStr(v[1] \div v[2]) \o <<".">>
          \o (IF frac = <<>> THEN <<"0">> ELSE frac)

-----------------------------------------------------------------------------
(* compare.py                                                              *)

Marker == <<"G", "B", "/", "s">>
\* `"GB/s" in line`
HasMarker(l) == Contains(Marker, l)

RECURSIVE ScanWhile(_, _, _)
\* Where `while i < n and (("GB/s" in lines[i]) == want): i += 1` stops,
\* started at index k (1-based).
ScanWhile(lines, k, want) ==
    IF k <= Len(lines) /\ (HasMarker(lines[k]) = want)
    THEN ScanWhile(lines, k + 1, want)
    ELSE k

\* A slip in split_file: every later line with the marker joins the block.
split_file_every_run(lines) ==
    LET a == ScanWhile(lines, 1, FALSE)
        rest == SubSeq(lines, a, Len(lines))
    IN  [header |-> SubSeq(lines, 1, a - 1),
         bench  |-> SelectSeq(rest, LAMBDA l : HasMarker(l)),
         footer |-> SelectSeq(rest, LAMBDA l : ~HasMarker(l))]

\* split_file on the lines readlines() returned: the three loops in turn.
split_file(lines) ==
    LET a == ScanWhile(lines, 1, FALSE)
        b == ScanWhile(lines, a, TRUE)
    IN  [header |-> SubSeq(lines, 1, a - 1),
         bench  |-> SubSeq(lines, a, b - 1),
         footer |-> SubSeq(lines, b, Len(lines))]

\* The regex (\d+(?:\.\d+)?)\s+(\S+) tried at position p.  Every quantifier
\* is greedy and giving characters back never helps (a shorter digit run is
\* followed by a digit or '.', a shorter blank run by a blank), so the match
\* is the greedy one or none.
PairAt(s, p) ==
    LET e1 == RunEnd(s, p, Digit)
        frac == e1 + 1 <= Len(s) /\ s[e1] = "." /\ s[e1 + 1] \in Digit
        e2 == IF frac THEN RunEnd(s, e1 + 1, Digit) ELSE e1
        e == IF frac /\ e2 <= Len(s) /\ s[e2] \in White THEN e2 ELSE e1
        w == RunEnd(s, e, White)
        u == RunEndNot(s, w, White)
    IN  IF e1 > p /\ w > e /\ u > w
        THEN [ok |-> TRUE, value |-> SubSeq(s, p, e - 1),
              unit |-> SubSeq(s, w, u - 1), next |-> u]
        ELSE [ok |-> FALSE, value |-> <<>>, unit |-> <<>>, next |-> p + 1]

RECURSIVE findall(_, _)
\* re.findall: the non-overlapping matches from position p on, left to right.
findall(s, p) ==
    IF p > Len(s) THEN <<>>
    ELSE LET m == PairAt(s, p)
         IN  IF m.ok THEN <<m>> \o findall(s, m.next) ELSE findall(s, p + 1)

\* The value and unit of one match m of the regex: float(value), unit.
reading(m) ==
    IF float(m.value).some THEN [v |-> float(m.value), u |-> m.unit]
    ELSE [v |-> None, u |-> <<>>]

\* extract_throughput: the last number/unit pair, as (value, unit); value is
\* None when there is no pair (the unit is then None too, here <<>>).
extract_throughput(l) ==
    CHOOSE t \in { IF matches # <<>> THEN reading(matches[Len(matches)])
                   ELSE [v |-> None, u |-> <<>>] : matches \in {findall(l, 1)} } : TRUE

\* extract_test_signature: re.match(r'\s*(.*?\):)', line).  '.' does not match
\* a newline, so the lazy group runs from the first non-blank character to the
\* first "):" reachable without crossing one.
extract_test_signature(l) ==
    LET s == RunEnd(l, 1, White)
        ends == {j \in s..(Len(l) - 1) :
                    /\ l[j] = ")" /\ l[j + 1] = ":"
                    /\ \A k \in s..(j - 1) : l[k] # "\n"}
    IN  IF ends = {} THEN None
        ELSE Some(SubSeq(l, s, (CHOOSE j \in ends : \A k \in ends : j <= k) + 1))

X == <<"x">>

\* Lines 77-81: the signature of line1, else of line2, else line1 itself.
signature(l1, l2) ==
    CHOOSE ts \in { IF s1.some THEN s1.val
                    ELSE IF s2.some THEN s2.val ELSE rstrip(l1) :
                    s1 \in {extract_test_signature(l1)},
                    s2 \in {extract_test_signature(l2)} } : TRUE

\* Lines 84-96 for one side: the throughput of a line that has the marker,
\* a missing value otherwise; the unit is "" whenever the value is missing.
side(l) ==
    IF HasMarker(l) THEN extract_throughput(l) ELSE [v |-> None, u |-> <<>>]

\* Lines 93-94: str(v), or "x" for a missing value.
value_str(t) == IF t.v.some THEN str(t.v.val) ELSE X

\* A slip in line 100: `>=` for `>`, a tie goes to file1.
winner_tie_first(t1, t2) ==
    IF t1.v.some /\ t2.v.some
    THEN (IF RatLess(t1.v.val, t2.v.val) THEN <<"1">> ELSE <<"0">>)
    ELSE <<"x">>

\* Lines 99-102: 0 if file1's value is higher, 1 otherwise, "x" if one is missing.
winner(t1, t2) ==
    IF t1.v.some /\ t2.v.some
    THEN (IF RatLess(t2.v.val, t1.v.val) THEN <<"0">> ELSE <<"1">>)
    ELSE X

\* Line 104: the f-string, and its fields kept apart.
formatted(ts, v1_str, u1, v2_str, u2, result) ==
    [passthrough |-> FALSE,
     text |-> ts \o <<" ">> \o v1_str \o <<" ">> \o u1 \o <<" ", " ">>
                 \o v2_str \o <<" ">> \o u2 \o <<" ", " ">> \o result,
     ts |-> ts, v1_str |-> v1_str, u1 |-> u1,
     v2_str |-> v2_str, u2 |-> u2, result |-> result]

\* process_benchmark_line.  passthrough is the early return of line1; text is
\* the string returned.
process_benchmark_line(l1, l2) ==
    IF ~HasMarker(l1) /\ ~HasMarker(l2)
    THEN [passthrough |-> TRUE, text |-> rstrip(l1), ts |-> <<>>,
          v1_str |-> <<>>, u1 |-> <<>>, v2_str |-> <<>>, u2 |-> <<>>,
          result |-> <<>>]
    ELSE CHOOSE r \in { formatted(ts, value_str(t1), t1.u, value_str(t2), t2.u,
                                  winner(t1, t2)) :
                        ts \in {signature(l1, l2)},
                        t1 \in {side(l1)}, t2 \in {side(l2)} } : TRUE

Max(a, b) == IF a > b THEN a ELSE b
Min(a, b) == IF a < b THEN a ELSE b

\* A slip in line 117: the rows stop at the end of the shorter block.
num_bench_lines_shorter(b1, b2) == Min(Len(b1), Len(b2))

\* compare_files line 117
num_bench_lines(b1, b2) == Max(Len(b1), Len(b2))

NL == <<"\n">>
NoRow == [passthrough |-> TRUE, text |-> <<>>, ts |-> <<>>,
          v1_str |-> <<>>, u1 |-> <<>>, v2_str |-> <<>>, u2 |-> <<>>,
          result |-> <<>>]
\* One print() call: the section it belongs to, the text written, and for a
\* benchmark row the two lines handed to process_benchmark_line and its result.
Printed(kind, text) ==
    [kind |-> kind, text |-> text, l1 |-> <<>>, l2 |-> <<>>, row |-> NoRow]
PrintedRow(l1, l2, r) ==
    [kind |-> "row", text |-> r.text \o NL, l1 |-> l1, l2 |-> l2, row |-> r]

\* The input lines of the positional tool.
PosLines ==
    { <<"l", "o", "g", "\n">>,
      <<"f", "(", "1", ")", ":", " ", "2", " ", "G", "B", "/", "s", "\n">>,
      <<"g", "(", "2", ")", ":", " ", "1", ".", "5", " ", "G", "B", "/", "s", "\n">> }

RECURSIVE SeqsUpTo(_, _)
\* The sequences over S of length at most n.
SeqsUpTo(S, n) ==
    IF n = 0 THEN {<<>>}
    ELSE LET shorter == SeqsUpTo(S, n - 1)
         IN  shorter \cup {Append(q, x) : q \in {t \in shorter : Len(t) = n - 1}, x \in S}

PosIdle ==
    /\ file1 = <<>> /\ file2 = <<>> /\ pc = "idle"
    /\ header1 = <<>> /\ bench1 = <<>> /\ footer1 = <<>>
    /\ header2 = <<>> /\ bench2 = <<>> /\ footer2 = <<>>
    /\ i = 0 /\ stdout = <<>>
RowIdle == line1 = <<>> /\ line2 = <<>> /\ row = None
ParseIdle == line = <<>> /\ parsed = None
FmtIdle == change = <<0, 1>> /\ change_str = None

\* compare_files(file1, file2), line 108
Split1 ==
    /\ pc = "split1"
    /\ \E r \in {split_file(file1)} :
           header1' = r.header /\ bench1' = r.bench /\ footer1' = r.footer
    /\ pc' = "split2"
    /\ UNCHANGED <<file1, file2, header2, bench2, footer2, i, stdout>>
    /\ UNCHANGED notPos

\* line 109
Split2 ==
    /\ pc = "split2"
    /\ \E r \in {split_file(file2)} :
           header2' = r.header /\ bench2' = r.bench /\ footer2' = r.footer
    /\ pc' = "header"
    /\ UNCHANGED <<file1, file2, header1, bench1, footer1, i, stdout>>
    /\ UNCHANGED notPos

\* lines 112-114: the header of file1 as it is, then a blank line
PrintHeader ==
    /\ pc = "header"
    /\ stdout' = stdout
                   \o [k \in 1..Len(header1) |-> Printed("header", header1[k])]
                   \o <<Printed("blank", NL)>>
    /\ i' = 0
    /\ pc' = "bench"
    /\ UNCHANGED <<file1, file2, header1, bench1, footer1, header2, bench2, footer2>>
    /\ UNCHANGED notPos

\* lines 117-122: one turn of the loop over range(num_bench_lines)
PrintRow ==
    /\ pc = "bench"
    /\ i < num_bench_lines(bench1, bench2)
    /\ LET l1 == IF i < Len(bench1) THEN bench1[i + 1] ELSE <<>>
           l2 == IF i < Len(bench2) THEN bench2[i + 1] ELSE <<>>
       IN  \E processed_line \in {process_benchmark_line(l1, l2)} :
               stdout' = Append(stdout, PrintedRow(l1, l2, processed_line))
    /\ i' = i + 1
    /\ UNCHANGED <<file1, file2, pc, header1, bench1, footer1, header2, bench2, footer2>>
    /\ UNCHANGED notPos

\* lines 125-126: the loop is over; the footer of file1 as it is
PrintFooter ==
    /\ pc = "bench"
    /\ i >= num_bench_lines(bench1, bench2)
    /\ stdout' = stdout \o [k \in 1..Len(footer1) |-> Printed("footer", footer1[k])]
    /\ pc' = "done"
    /\ UNCHANGED <<file1, file2, header1, bench1, footer1, header2, bench2, footer2, i>>
    /\ UNCHANGED notPos

\* process_benchmark_line applied to one pair of lines
BuildRow ==
    /\ row = None
    /\ row' = Some(process_benchmark_line(line1, line2))
    /\ UNCHANGED <<line1, line2>>
    /\ UNCHANGED notRow

-----------------------------------------------------------------------------
(* compare_test_backend_ops.py                                             *)

GFLOPS == <<"G", "F", "L", "O", "P", "S">>
TFLOPS == <<"T", "F", "L", "O", "P", "S">>
MFLOPS == <<"M", "F", "L", "O", "P", "S">>
Units == {GFLOPS, TFLOPS, MFLOPS}

\* The regex ([\d\.]+)\s+(GFLOPS|TFLOPS|MFLOPS)$ tried at position p of d.
\* Both runs are greedy and giving characters back never helps (a shorter
\* number run is followed by a number character, a shorter blank run by a
\* blank), so the match is the greedy one or none.
UnitAt(d, p) ==
    LET e == RunEnd(d, p, NumChar)
        w == RunEnd(d, e, White)
        rest == SubSeq(d, w, Len(d))
    IN  [ok |-> e > p /\ w > e /\ rest \in Units,
         value_str |-> SubSeq(d, p, e - 1), unit |-> rest]

\* re.search: the match at the leftmost position that has one.
re_search(d) ==
    LET hits == {p \in 1..Len(d) : UnitAt(d, p).ok}
    IN  IF hits = {} THEN [ok |-> FALSE, value_str |-> <<>>, unit |-> <<>>]
        ELSE UnitAt(d, CHOOSE p \in hits : \A r \in hits : p <= r)

\* A slip in lines 31-34: the two conversion factors exchanged.
normalize_swapped(value, unit) ==
    IF unit = TFLOPS THEN RatDiv(value, RatOfInt(1000))
    ELSE IF unit = MFLOPS THEN RatMul(value, RatOfInt(1000))
    ELSE value

\* parse_benchmark_line lines 31-36: everything to GFLOPS
normalize(value, unit) ==
    IF unit = TFLOPS THEN RatMul(value, RatOfInt(1000))
    ELSE IF unit = MFLOPS THEN RatDiv(value, RatOfInt(1000))
    ELSE value

Absent == [kind |-> "absent", key |-> <<>>, gflops |-> <<0, 1>>]
Raised == [kind |-> "ValueError", key |-> <<>>, gflops |-> <<0, 1>>]

\* parse_benchmark_line: (None, None) is Absent, (key, gflops) has kind "ok",
\* and the ValueError float() raises leaves the function as Raised.
parse_benchmark_line(l) ==
    LET t == strip(l)
        colons == {k \in 1..Len(t) : t[k] = ":"}
    IN  IF colons = {} THEN Absent
        ELSE
          LET c == CHOOSE k \in colons : \A r \in colons : k <= r
              key == strip(SubSeq(t, 1, c - 1))
              data_part == SubSeq(t, c + 1, Len(t))
              match == re_search(strip(data_part))
          IN  IF ~match.ok THEN Absent
              ELSE
                LET value == float(match.value_str)
                IN  IF ~value.some THEN Raised
                    ELSE [kind |-> "ok", key |-> key,
                          gflops |-> normalize(value.val, match.unit)]

\* A dict from keys to floats.
EmptyDict == [k \in {} |-> <<0, 1>>]
Store(d, key, v) == [k \in DOMAIN d \cup {key} |-> IF k = key THEN v ELSE d[k]]
\* dict.get(key)
Get(d, key) == IF key \in DOMAIN d THEN Some(d[key]) ELSE None

\* The body of the loop of load_results for one line that did not raise:
\* `if key: results[key] = gflops`.  The empty string is falsy, like None.
LoadLine(results, r) ==
    IF r.kind = "ok" /\ r.key # <<>> THEN Store(results, r.key, r.gflops)
    ELSE results

\* "{:.2f}": two decimals, the nearest one (ties to even on the exact value).
Fixed2(q) ==
    LET x == Abs(q[1]) * 100
        fl == x \div q[2]
        rem == x % q[2]
        cents == IF 2 * rem > q[2] \/ (2 * rem = q[2] /\ fl % 2 = 1)
                 THEN fl + 1 ELSE fl
        c == cents % 100
    IN  (IF q[1] < 0 THEN <<"-">> ELSE <<>>)
          \o NatToStr(cents \div 100) \o <<".">>
          \o <<DigitChar(c \div 10), DigitChar(c % 10)>>

Tenth == <<1, 10>>
About0 == <<" ", "~", "0", ".", "0", "0", "%">>

\* A slip in line 58: `>=` for `>`.
format_change_inclusive(c) ==
    IF ~RatLess(c, Tenth) THEN <<"+">> \o Fixed2(c) \o <<"%">>
    ELSE IF RatLess(c, <<-1, 10>>) THEN Fixed2(c) \o <<"%">>
    ELSE About0

\* format_change
format_change(c) ==
    IF RatLess(Tenth, c) THEN <<"+">> \o Fixed2(c) \o <<"%">>
    ELSE IF RatLess(c, <<-1, 10>>) THEN Fixed2(c) \o <<"%">>
    ELSE About0

\* Python's order on strings: by code point, a proper prefix first.  The
\* printable ASCII characters in code point order, U+0020 to U+005F and
\* U+0061 to U+007E (U+0060 cannot be written in a string here).
AsciiLow ==
    <<" ", "!", "\"", "#", "$", "%", "&", "'", "(", ")", "*", "+",
      ",", "-", ".", "/", "0", "1", "2", "3", "4", "5", "6", "7",
      "8", "9", ":", ";", "<", "=", ">", "?", "@", "A", "B", "C",
      "D", "E", "F", "G", "H", "I", "J", "K", "L", "M", "N", "O",
      "P", "Q", "R", "S", "T", "U", "V", "W", "X", "Y", "Z", "[",
      "\\", "]", "^", "_">>
AsciiHigh ==
    <<"a", "b", "c", "d", "e", "f", "g", "h", "i", "j", "k", "l",
      "m", "n", "o", "p", "q", "r", "s", "t", "u", "v", "w", "x",
      "y", "z", "{", "|", "}", "~">>
Code(c) ==
    IF \E k \in 1..Len(AsciiLow) : AsciiLow[k] = c
    THEN 31 + (CHOOSE k \in 1..Len(AsciiLow) : AsciiLow[k] = c)
    ELSE 96 + (CHOOSE k \in 1..Len(AsciiHigh) : AsciiHigh[k] = c)

StrLess(a, b) ==
    \/ Len(a) < Len(b) /\ SubSeq(b, 1, Len(a)) = a
    \/ \E k \in 1..Len(a) :
          /\ k <= Len(b)
          /\ SubSeq(a, 1, k - 1) = SubSeq(b, 1, k - 1)
          /\ Code(a[k]) < Code(b[k])

RECURSIVE sorted(_)
\* sorted(list(S)) for a set of strings
sorted(S) ==
    IF S = {} THEN <<>>
    ELSE LET m == CHOOSE x \in S : \A y \in S \ {x} : StrLess(x, y)
         IN  <<m>> \o sorted(S \ {m})

\* A path that names no file, and a file with its lines.
Missing == [exists |-> FALSE, lines |-> <<>>]
File(ls) == [exists |-> TRUE, lines |-> ls]

\* The output file before open(args.output, 'w').
NotWritten == [written |-> FALSE, key_width |-> 0, divider |-> 0, rows |-> <<>>]

KeyIdle ==
    /\ old_file = Missing /\ new_file = Missing /\ kpc = "idle" /\ pos = 0
    /\ old_results = EmptyDict /\ new_results = EmptyDict
    /\ all_keys = <<>> /\ comparisons = <<>>
    /\ status = None /\ diag = <<>> /\ report = NotWritten

\* An uncaught exception: the traceback, and the interpreter exits with 1.
Uncaught(name) ==
    /\ diag' = Append(diag, name)
    /\ status' = Some(1)
    /\ kpc' = "exit"

\* main line 80-81, load_results line 43-45 and 50-52: open the old file
LoadOld ==
    /\ kpc = "start"
    /\ IF old_file.exists
       THEN /\ diag' = Append(diag, "Loading old results")
            /\ kpc' = "read_old" /\ pos' = 1 /\ status' = status
       ELSE /\ diag' = diag \o <<"Loading old results", "Error: File not found">>
            /\ status' = Some(1) /\ kpc' = "exit" /\ pos' = pos
    /\ old_results' = EmptyDict
    /\ UNCHANGED <<old_file, new_file, new_results, all_keys, comparisons, report>>
    /\ UNCHANGED notKey

\* load_results lines 46-49 on the old file: one line
ReadOld ==
    /\ kpc = "read_old"
    /\ pos <= Len(old_file.lines)
    /\ LET r == parse_benchmark_line(old_file.lines[pos])
       IN  IF r.kind = "ValueError"
           THEN Uncaught("ValueError") /\ UNCHANGED <<old_results, pos>>
           ELSE /\ old_results' = LoadLine(old_results, r)
                /\ pos' = pos + 1
                /\ UNCHANGED <<kpc, status, diag>>
    /\ UNCHANGED <<old_file, new_file, new_results, all_keys, comparisons, report>>
    /\ UNCHANGED notKey

\* load_results line 53 on the old file, then main lines 82-83 and
\* load_results lines 43-45 and 50-52: open the new file
LoadNew ==
    /\ kpc = "read_old"
    /\ pos > Len(old_file.lines)
    /\ IF new_file.exists
       THEN /\ diag' = Append(diag, "Loading new results")
            /\ kpc' = "read_new" /\ pos' = 1 /\ status' = status
       ELSE /\ diag' = diag \o <<"Loading new results", "Error: File not found">>
            /\ status' = Some(1) /\ kpc' = "exit" /\ pos' = pos
    /\ new_results' = EmptyDict
    /\ UNCHANGED <<old_file, new_file, old_results, all_keys, comparisons, report>>
    /\ UNCHANGED notKey

\* load_results lines 46-49 on the new file: one line
ReadNew ==
    /\ kpc = "read_new"
    /\ pos <= Len(new_file.lines)
    /\ LET r == parse_benchmark_line(new_file.lines[pos])
       IN  IF r.kind = "ValueError"
           THEN Uncaught("ValueError") /\ UNCHANGED <<new_results, pos>>
           ELSE /\ new_results' = LoadLine(new_results, r)
                /\ pos' = pos + 1
                /\ UNCHANGED <<kpc, status, diag>>
    /\ UNCHANGED <<old_file, new_file, old_results, all_keys, comparisons, report>>
    /\ UNCHANGED notKey

\* main line 85: `not old_results or not new_results`
either_empty(old, new) == DOMAIN old = {} \/ DOMAIN new = {}

\* main lines 85-91: both files are loaded
CheckLoaded ==
    /\ kpc = "read_new"
    /\ pos > Len(new_file.lines)
    /\ IF either_empty(old_results, new_results)
       THEN /\ diag' = Append(diag, "Could not load results")
            /\ status' = Some(0) /\ kpc' = "exit"
            /\ UNCHANGED <<all_keys, comparisons>>
       ELSE /\ all_keys' = sorted(DOMAIN old_results \cup DOMAIN new_results)
            /\ comparisons' = <<>>
            /\ kpc' = "align"
            /\ UNCHANGED <<status, diag>>
    /\ UNCHANGED <<old_file, new_file, pos, old_results, new_results, report>>
    /\ UNCHANGED notKey

\* The change of one entry, lines 97-100; None when the division raises
\* ZeroDivisionError (a float divided by 0.0).
entry_change(old_val, new_val) ==
    IF old_val.some /\ new_val.some
    THEN IF old_val.val[1] = 0 THEN None
         ELSE Some(RatMul(RatDiv(RatSub(new_val.val, old_val.val), old_val.val),
                          RatOfInt(100)))
    ELSE Some(<<0, 1>>)

\* main lines 93-102: one turn of the loop over all_keys
Compare ==
    /\ kpc = "align"
    /\ Len(comparisons) < Len(all_keys)
    /\ LET key == all_keys[Len(comparisons) + 1]
           old_val == Get(old_results, key)
           new_val == Get(new_results, key)
           c == entry_change(old_val, new_val)
       IN  IF ~c.some
           THEN Uncaught("ZeroDivisionError") /\ UNCHANGED comparisons
           ELSE /\ comparisons' = Append(comparisons,
                      [key |-> key, old |-> old_val, new |-> new_val,
                       change |-> c.val])
                /\ UNCHANGED <<kpc, status, diag>>
    /\ UNCHANGED <<old_file, new_file, pos, old_results, new_results, all_keys, report>>
    /\ UNCHANGED notKey

NA == <<"N", "/", "A">>

\* One data row, lines 114-117.  The four fields are kept apart; the padding
\* of the f-string (key to 95 columns, the others to 15) is left out.
report_row(item) ==
    [key |-> item.key,
     old_str |-> IF item.old.some THEN Fixed2(item.old.val) ELSE NA,
     new_str |-> IF item.new.some THEN Fixed2(item.new.val) ELSE NA,
     change_str |-> format_change(item.change)]

RECURSIVE MaxLen(_)
\* max(len(k) for k in keys), for a non-empty sequence
MaxLen(keys) ==
    IF Len(keys) = 1 THEN Len(keys[1])
    ELSE Max(Len(keys[1]), MaxLen(Tail(keys)))

\* main lines 105-119: the loop is over; write the report.  The header line
\* is 'Test Configuration' (18 characters) padded to key_width and three
\* columns of 15 after a blank each; the divider has its length.
WriteReport ==
    /\ kpc = "align"
    /\ Len(comparisons) = Len(all_keys)
    /\ LET key_width == MaxLen(all_keys) + 2
       IN  report' = [written |-> TRUE, key_width |-> key_width,
                      divider |-> Max(key_width, 18) + 48,
                      rows |-> [k \in 1..Len(comparisons) |-> report_row(comparisons[k])]]
    /\ diag' = Append(diag, "Comparison report successfully generated")
    /\ status' = Some(0)
    /\ kpc' = "exit"
    /\ UNCHANGED <<old_file, new_file, pos, old_results, new_results, all_keys, comparisons>>
    /\ UNCHANGED notKey

\* parse_benchmark_line applied to one line
ParseLine ==
    /\ parsed = None
    /\ parsed' = Some(parse_benchmark_line(line))
    /\ UNCHANGED line
    /\ UNCHANGED notParse

\* format_change applied to one change
FormatChange ==
    /\ change_str = None
    /\ change_str' = Some(format_change(change))
    /\ UNCHANGED change
    /\ UNCHANGED notFmt

-----------------------------------------------------------------------------
(* Inputs.                                                                 *)

\* Pairs of lines for process_benchmark_line: a signature (or none) and a
\* body, or the empty string compare_files passes for a missing side.
RowSigs == { <<>>, <<"f", "(", "1", ")", ":", " ">>,
             <<" ", " ", "g", "(", "2", ")", ":", " ">> }
RowBodies ==
    { <<"2", " ", "G", "B", "/", "s">>,
      <<"2", ".", "0", " ", "G", "B", "/", "s">>,
      <<"1", ".", "5", " ", "G", "B", "/", "s">>,
      <<"1", "0", " ", "G", "B", "/", "s">>,
      <<"0", " ", "G", "B", "/", "s">>,
      <<"f", "a", "s", "t", " ", "G", "B", "/", "s">>,
      <<"3", "G", "B", "/", "s">>,
      <<"3", " ", "G", "B", "/", "s", " ", "4", " ", "r", "u", "n", "s">>,
      <<"7", " ", "G", "F", "L", "O", "P", "S">>,
      <<"n", "o", "t", "e">> }
RowLines == {<<>>} \cup {sig \o body \o NL : sig \in RowSigs, body \in RowBodies}

\* Lines for parse_benchmark_line: key, separator, text, number, blank, unit, end.
ParseKeys == { <<>>, <<"A">>, <<" ", "B", " ">>, <<"A", "(", "n", "=", "1", ")">> }
ParseSeps == { <<>>, <<":">>, <<":", ":">> }
ParseTexts == { <<" ">>, <<" ", "5", " ", "r", "u", "n", "s", " ", "-", " ">>, <<"x">> }
ParseNumbers == { <<>>, <<"0">>, <<"5">>, <<"2", ".", "0", "0">>, <<"5", "0", "0">>,
                  <<".", "5">>, <<"1", ".", "2", ".", "3">>, <<".">> }
ParseBlanks == { <<>>, <<" ">>, <<" ", "\t">> }
ParseUnits == Units \cup { <<>>, <<"K", "F", "L", "O", "P", "S">> }
ParseEnds == { NL, <<" ", "\n">>, <<" ", "x", "\n">> }
ParseLines ==
    { k \o s \o t \o n \o b \o u \o e :
        k \in ParseKeys, s \in ParseSeps, t \in ParseTexts, n \in ParseNumbers,
        b \in ParseBlanks, u \in ParseUnits, e \in ParseEnds }

\* Lines of the files of the keyed tool.
NewLines ==
    { <<"A", ":", " ", "2", "0", " ", "G", "F", "L", "O", "P", "S", "\n">>,
      <<"B", ":", " ", "2", " ", "T", "F", "L", "O", "P", "S", "\n">>,
      <<"B", ":", " ", "1", ".", "2", ".", "3", " ", "G", "F", "L", "O", "P", "S", "\n">>,
      <<"n", "o", "i", "s", "e", "\n">> }
OldLines ==
    NewLines \cup
    { <<"A", ":", " ", "1", "0", " ", "G", "F", "L", "O", "P", "S", "\n">>,
      <<"A", ":", " ", "0", " ", "G", "F", "L", "O", "P", "S", "\n">>,
      <<":", " ", "5", " ", "G", "F", "L", "O", "P", "S", "\n">> }

-----------------------------------------------------------------------------
(* Specifications.                                                         *)

\* compare.py run on two files
Init ==
    /\ file1 \in SeqsUpTo(PosLines, MaxLines1)
    /\ file2 \in SeqsUpTo(PosLines, MaxLines2)
    /\ pc = "split1"
    /\ header1 = <<>> /\ bench1 = <<>> /\ footer1 = <<>>
    /\ header2 = <<>> /\ bench2 = <<>> /\ footer2 = <<>>
    /\ i = 0 /\ stdout = <<>>
    /\ RowIdle /\ ParseIdle /\ FmtIdle /\ KeyIdle

Next == Split1 \/ Split2 \/ PrintHeader \/ PrintRow \/ PrintFooter

Spec == Init /\ [][Next]_vars

\* process_benchmark_line on a pair of lines
RowInit ==
    /\ line1 \in RowLines /\ line2 \in RowLines /\ row = None
    /\ PosIdle /\ ParseIdle /\ FmtIdle /\ KeyIdle

RowNext == BuildRow

RowSpec == RowInit /\ [][RowNext]_vars

\* parse_benchmark_line on a line
ParseInit ==
    /\ line \in ParseLines /\ parsed = None
    /\ PosIdle /\ RowIdle /\ FmtIdle /\ KeyIdle

ParseNext == ParseLine

ParseSpec == ParseInit /\ [][ParseNext]_vars

\* format_change on a change
FormatInit ==
    /\ change \in {Rat(n, 1000) : n \in (-MaxChange)..MaxChange}
    /\ change_str = None
    /\ PosIdle /\ RowIdle /\ ParseIdle /\ KeyIdle

FormatNext == FormatChange

FormatSpec == FormatInit /\ [][FormatNext]_vars

\* compare_test_backend_ops.py run on two paths
KeyedInit ==
    /\ old_file \in {Missing} \cup {File(ls) : ls \in SeqsUpTo(OldLines, MaxOldLines)}
    /\ new_file \in {Missing} \cup {File(ls) : ls \in SeqsUpTo(NewLines, MaxNewLines)}
    /\ kpc = "start" /\ pos = 0
    /\ old_results = EmptyDict /\ new_results = EmptyDict
    /\ all_keys = <<>> /\ comparisons = <<>>
    /\ status = None /\ diag = <<>> /\ report = NotWritten
    /\ PosIdle /\ RowIdle /\ ParseIdle /\ FmtIdle

KeyedNext ==
    LoadOld \/ ReadOld \/ LoadNew \/ ReadNew \/ CheckLoaded \/ Compare \/ WriteReport

KeyedSpec == KeyedInit /\ [][KeyedNext]_vars

-----------------------------------------------------------------------------
(* Properties.                                                             *)

Range(q) == {q[k] : k \in 1..Len(q)}

\* What split_file owes its caller for the lines of one file.
SplitOk(lines, h, b, f) ==
    /\ h \o b \o f = lines
    /\ \A k \in 1..Len(h) : ~HasMarker(h[k])
    /\ \A k \in 1..Len(b) : HasMarker(b[k])
    /\ Len(h) < Len(lines) => HasMarker(lines[Len(h) + 1])
    /\ f # <<>> => ~HasMarker(f[1])

\* C1: split_file returns header, bench and footer that concatenate to the
\* input; header is the longest prefix of lines without "GB/s", bench the
\* longest run of lines with "GB/s" right after it, and every later line is
\* in footer, lines with "GB/s" that come back included.
C1_SplitPartition ==
    /\ pc # "split1" => SplitOk(file1, header1, bench1, footer1)
    /\ pc \notin {"split1", "split2"} => SplitOk(file2, header2, bench2, footer2)

\* C1 witness: a file with a header, a block, and a footer in which a
\* "GB/s" line comes back.
C1_Witness ==
    /\ pc = "done"
    /\ header1 # <<>> /\ bench1 # <<>>
    /\ \E k \in 1..Len(footer1) : HasMarker(footer1[k])

\* The value compare.py reads on one side: absent without the marker.
Throughput(l) == IF HasMarker(l) THEN extract_throughput(l).v ELSE None

\* C2: for a pair of lines of which one at least has "GB/s", the winner is
\* "0" exactly when both values are present and A > B, "1" exactly when both
\* are present and B >= A, "x" exactly when one is absent; a side without
\* "GB/s" is absent: value "x", empty unit.
C2_Winner ==
    row.some /\ (HasMarker(line1) \/ HasMarker(line2)) =>
        LET r == row.val
            a == Throughput(line1)
            b == Throughput(line2)
            both == a.some /\ b.some
        IN  /\ ~r.passthrough
            /\ r.result = <<"0">> <=> (both /\ RatLess(b.val, a.val))
            /\ r.result = <<"1">> <=> (both /\ ~RatLess(b.val, a.val))
            /\ r.result = <<"x">> <=> ~both
            /\ r.v1_str = <<"x">> <=> ~a.some
            /\ r.v2_str = <<"x">> <=> ~b.some
            /\ ~HasMarker(line1) => r.v1_str = <<"x">> /\ r.u1 = <<>>
            /\ ~HasMarker(line2) => r.v2_str = <<"x">> /\ r.u2 = <<>>

\* C2 witness: a tie between two values written differently, won by B.
C2_Witness ==
    /\ row.some /\ line1 # line2
    /\ Throughput(line1).some /\ Throughput(line1) = Throughput(line2)
    /\ row.val.result = <<"1">>

\* C3: parse_benchmark_line returns absent or (key, value) and never raises.
C3_NeverRaises ==
    parsed.some => parsed.val.kind \in {"absent", "ok"}

\* The text before the first ':' of a stripped line t, and the text after it.
FirstColon(t) == CHOOSE k \in 1..Len(t) : t[k] = ":" /\ \A j \in 1..(k - 1) : t[j] # ":"
\* The remainder d ends in the number d[a..b], blanks, and a unit token.
EndsInNumberUnit(d, a, b) ==
    /\ 1 <= a /\ a <= b /\ b + 1 <= Len(d) - 6
    /\ \A k \in a..b : d[k] \in NumChar
    /\ a > 1 => d[a - 1] \notin NumChar
    /\ \A k \in (b + 1)..(Len(d) - 6) : d[k] \in White
    /\ SubSeq(d, Len(d) - 5, Len(d)) \in Units

LoadedOk(results, ls) ==
    LET ok == {k \in 1..Len(ls) : parse_benchmark_line(ls[k]).kind = "ok"}
    IN  /\ DOMAIN results = {parse_benchmark_line(ls[k]).key : k \in ok}
        /\ \A k \in ok :
              (\A j \in ok : j > k =>
                    parse_benchmark_line(ls[j]).key # parse_benchmark_line(ls[k]).key)
              => results[parse_benchmark_line(ls[k]).key]
                    = parse_benchmark_line(ls[k]).gflops

\* C5: after load_results has read any lines, the mapping holds exactly the
\* keys of the lines that parsed, each with the value of the last such line.
C5_LastParsedWins ==
    /\ kpc = "read_old" => LoadedOk(old_results, SubSeq(old_file.lines, 1, pos - 1))
    /\ kpc = "read_new" => LoadedOk(new_results, SubSeq(new_file.lines, 1, pos - 1))

\* The run got past the check of line 85: both mappings were not empty.
Aligned == all_keys # <<>>

\* C6: for two non-empty mappings the report has one data row for each key of
\* the union of the two key sets, each key once, in ascending order, with
\* "N/A" in the column of a side that lacks the key.
C6_OneRowPerKey ==
    kpc = "exit" /\ Aligned =>
        LET keys == DOMAIN old_results \cup DOMAIN new_results
            rows == report.rows
        IN  /\ report.written
            /\ Len(rows) = Cardinality(keys)
            /\ \A key \in keys : \E k \in 1..Len(rows) : rows[k].key = key
            /\ \A j, k \in 1..Len(rows) : j < k => StrLess(rows[j].key, rows[k].key)
            /\ \A k \in 1..Len(rows) :
                  /\ rows[k].old_str = NA <=> rows[k].key \notin DOMAIN old_results
                  /\ rows[k].new_str = NA <=> rows[k].key \notin DOMAIN new_results

\* C7: for two non-empty mappings every key of the union gets an entry whose
\* change is (new - old) / old * 100 when both values are present, whatever
\* the old value, and 0 otherwise; the report is then written, a row an entry.
C7_ChangeOfEveryKey ==
    kpc = "exit" /\ Aligned =>
        /\ Len(comparisons) = Len(all_keys)
        /\ \A k \in 1..Len(comparisons) :
              LET e == comparisons[k]
              IN  /\ e.key = all_keys[k]
                  /\ e.old.some /\ e.new.some =>
                        \* change * old = (new - old) * 100
                        RatMul(e.change, e.old.val)
                            = RatMul(RatSub(e.new.val, e.old.val), RatOfInt(100))
                  /\ ~(e.old.some /\ e.new.some) => e.change = <<0, 1>>
        /\ report.written
        /\ Len(report.rows) = Len(comparisons)

\* load_results has returned the mapping of the old file, of the new file.
OldLoaded == old_file.exists /\ "Loading new results" \in Range(diag)
NewLoaded == OldLoaded /\ new_file.exists /\ kpc \in {"align", "exit"}

\* C8: the report is written only when both files could be opened and both
\* loaded mappings are non-empty; a missing file ends the run with a non-zero
\* status before any later step (the new file is not loaded when the old one
\* is missing); an empty mapping on either side makes the tool return with
\* status 0 after the diagnostic; in neither case is the output file written.
C8_ReportOnlyWhenLoaded ==
    /\ report.written =>
          /\ old_file.exists /\ new_file.exists
          /\ DOMAIN old_results # {} /\ DOMAIN new_results # {}
    /\ kpc = "exit" /\ ~old_file.exists =>
          /\ status = Some(1) /\ ~report.written
          /\ diag = <<"Loading old results", "Error: File not found">>
          /\ new_results = EmptyDict
    /\ kpc = "exit" /\ old_file.exists /\ ~new_file.exists =>
          /\ status = Some(1) /\ ~report.written
    /\ ( /\ kpc = "exit" /\ old_file.exists /\ new_file.exists
         /\ \/ OldLoaded /\ DOMAIN old_results = {}
            \/ NewLoaded /\ DOMAIN new_results = {} ) =>
          /\ status = Some(0) /\ ~report.written
          /\ diag[Len(diag)] = "Could not load results"

\* "X.XX": digits, a point, two digits.
TwoDecimals(t) ==
    /\ Len(t) >= 4
    /\ t[Len(t) - 2] = "."
    /\ \A k \in 1..Len(t) : k # Len(t) - 2 => t[k] \in Digit
\* |a - b| <= 1/200
WithinHalfCent(a, b) ==
    /\ ~RatLess(<<1, 200>>, RatSub(a, b))
    /\ ~RatLess(<<1, 200>>, RatSub(b, a))
\* s is sign, then the magnitude m to two decimals, then '%'.
SignedPercent(s, sign, m) ==
    /\ Len(s) >= 6
    /\ s[1] = sign /\ s[Len(s)] = "%"
    /\ TwoDecimals(SubSeq(s, 2, Len(s) - 1))
    /\ WithinHalfCent(float(SubSeq(s, 2, Len(s) - 1)).val, m)

\* C9: format_change renders '+X.XX%' for a change above 0.10, '-X.XX%' for a
\* change below -0.10, and ' ~0.00%' for a change in (-0.10, 0.10].
C9_SignedOrAboutZero ==
    change_str.some =>
        /\ RatLess(<<1, 10>>, change) => SignedPercent(change_str.val, "+", change)
        /\ RatLess(change, <<-1, 10>>) =>
              SignedPercent(change_str.val, "-", <<-change[1], change[2]>>)
        /\ RatLess(<<-1, 10>>, change) /\ ~RatLess(<<1, 10>>, change) =>
              change_str.val = <<" ", "~", "0", ".", "0", "0", "%">>

\* C9 witness: a change of exactly 0.10 has been rendered, as ' ~0.00%'.
C9_Witness ==
    /\ change_str.some /\ change = <<1, 10>>
    /\ change_str.val = <<" ", "~", "0", ".", "0", "0", "%">>

\* The benchmark rows printed so far.
Rows == SelectSeq(stdout, LAMBDA p : p.kind = "row")

\* C10: in compare_files one at least of the two lines of every row has
\* "GB/s", so no row is a line passed through; max(len(bench1), len(bench2))
\* rows are printed, and a row past the end of the shorter block has "x" and
\* an empty unit on the missing side and "x" as winner.
C10_DriverRows ==
    /\ \A k \in 1..Len(Rows) :
          /\ HasMarker(Rows[k].l1) \/ HasMarker(Rows[k].l2)
          /\ ~Rows[k].row.passthrough
          /\ k > Len(bench1) =>
                /\ Rows[k].row.v1_str = <<"x">> /\ Rows[k].row.u1 = <<>>
                /\ Rows[k].row.result = <<"x">>
          /\ k > Len(bench2) =>
                /\ Rows[k].row.v2_str = <<"x">> /\ Rows[k].row.u2 = <<>>
                /\ Rows[k].row.result = <<"x">>
    /\ pc = "done" =>
          Len(Rows) = (IF Len(bench1) >= Len(bench2) THEN Len(bench1) ELSE Len(bench2))

\* C10 witness: the run is over, the block of file1 is the shorter one and
\* not empty, and the last row has "x" for file1.
C10_Witness ==
    /\ pc = "done"
    /\ 0 < Len(bench1) /\ Len(bench1) < Len(bench2)
    /\ Len(Rows) = Len(bench2)
    /\ Rows[Len(Rows)].row.v1_str = <<"x">>

=============================================================================
